---- MODULE Spec2Model ----
(***************************************************************************)
(* Stochastic route planner of giordano-lucas/wybe (notebooks/wybe).       *)
(*                                                                         *)
(* The model follows one request to Routing.robust / stochastic_dijkstra:  *)
(* the backward search is modelled one pop of the priority queue at a      *)
(* time, the robust planner one loop iteration at a time (Spec).  ConcSpec *)
(* interleaves two requests on one Routing object; DelaySpec is one call   *)
(* of Delay.connection_probability on a pair of edge records.              *)
(* WideSpec follows one request on the graphs of five stops; AdditionSpec  *)
(* is one call of TimeDistance.__add__ on a label and an edge record.      *)
(*                                                                         *)
(* Times are integers (seconds of day).  Probabilities are exact rationals *)
(* [n, d].  The Gamma CDF of scipy is represented by two nondecreasing     *)
(* step functions (GammaCdf).  The request's arr_time is given as a        *)
(* timestamp, start and end as stop names.                                 *)
(***************************************************************************)
EXTENDS Integers, Sequences, FiniteSets, TLC

(***************************************************************************)
(* Bounds of the model.                                                    *)
(***************************************************************************)
MaxEdges == 5
MaxIter == 2
MaxRoutes == 2
MaxConcEdges == 3

(***************************************************************************)
(* utils.py: constants.                                                    *)
(***************************************************************************)
FOOT_TTYPE == "Foot"
FOOT_TRIP_ID == -1
INIT_TTYPE == "Init"
INIT_TRIP_ID == -2

(***************************************************************************)
(* routing.py: Routing.MAX_WAITING_TIME.                                   *)
(***************************************************************************)
MAX_WAITING_TIME == 45 * 60

(***************************************************************************)
(* delay.py: EXTRA_TRANSFER_TIME.                                          *)
(***************************************************************************)
\* variant of EXTRA_TRANSFER_TIME: Tram has the penalty of Bus
EXTRA_TRANSFER_TIME_TramAsBus ==
    [ m \in {"Bus", "Foot", "Tram", "S-Bahn", "Extrazug", "InterRegio", "Eurocity",
             "RegioExpress", "ICE", "Eurostar", "Intercity"} |->
        CASE m \in {"Bus", "Foot", "Tram"} -> 20
          [] m \in {"S-Bahn", "Extrazug"} -> 100
          [] OTHER -> 120 ]

EXTRA_TRANSFER_TIME ==
    [ m \in {"Bus", "Foot", "Tram", "S-Bahn", "Extrazug", "InterRegio", "Eurocity",
             "RegioExpress", "ICE", "Eurostar", "Intercity"} |->
        CASE m \in {"Bus", "Foot"} -> 20
          [] m = "Tram" -> 30
          [] m \in {"S-Bahn", "Extrazug"} -> 100
          [] OTHER -> 120 ]

(***************************************************************************)
(* Probabilities: exact rationals n/d with d > 0.                          *)
(***************************************************************************)
Prob(n, d) == [n |-> n, d |-> d]
POne == Prob(1, 1)
PMul(p, q) == Prob(p.n * q.n, p.d * q.d)
PLeq(p, q) == p.n * q.d <= q.n * p.d
PLt(p, q) == p.n * q.d < q.n * p.d
PGeq(p, q) == PLeq(q, p)
PEq(p, q) == p.n * q.d = q.n * p.d

(***************************************************************************)
(* scipy.stats.gamma .cdf(delay) of gamma_params: the fitted delay         *)
(* distributions, as nondecreasing step functions of the delay.  "gFast"   *)
(* stands for a distribution concentrated on short delays, "gSlow" for one *)
(* with a long tail.  Both are 0 for a delay <= 0.                         *)
(***************************************************************************)
Gammas == {"gFast", "gSlow"}
GammaCdf(g, delay) ==
    IF delay <= 0 THEN Prob(0, 10)
    ELSE IF g = "gFast"
         THEN CASE delay <= 790 -> Prob(6, 10)
                [] delay > 790 /\ delay <= 850 -> Prob(8, 10)
                [] delay > 850 /\ delay <= 875 -> Prob(85, 100)
                [] delay > 875 /\ delay < 1700 -> Prob(9, 10)
                [] OTHER -> Prob(10, 10)
         ELSE CASE delay <= 1000 -> Prob(3, 10)
                [] delay > 1000 /\ delay <= 4000 -> Prob(5, 10)
                [] OTHER -> Prob(7, 10)

(***************************************************************************)
(* delay.py: Delay.                                                        *)
(***************************************************************************)
compute_delay(arrival_time, next_departure_time, ttype, previous_route_id, next_route_id) ==
    IF previous_route_id # next_route_id
    THEN (next_departure_time - arrival_time) - EXTRA_TRANSFER_TIME[ttype]
    ELSE next_departure_time - arrival_time

\* variant of private_connection_probability: the same-trip test is missing
private_connection_probability_NoTrip(d, gamma_params, ttype, previous_route_id, next_route_id) ==
    IF \/ ttype = "Foot"
       \/ gamma_params = "None"
    THEN POne
    ELSE GammaCdf(gamma_params, d)

private_connection_probability(d, gamma_params, ttype, previous_route_id, next_route_id) ==
    IF \/ ttype = "Foot"
       \/ previous_route_id = next_route_id
       \/ gamma_params = "None"
    THEN POne
    ELSE GammaCdf(gamma_params, d)

\* line 42: EXTRA_TRANSFER_TIME[ttype] raises KeyError for a ttype without an
\* entry, which is looked up only on a change of trip
compute_delay_raises(ttype, previous_route_id, next_route_id) ==
    /\ previous_route_id # next_route_id
    /\ ttype \notin DOMAIN EXTRA_TRANSFER_TIME

\* The delay d is computed first (as in the source): a prev ttype without an
\* entry in EXTRA_TRANSFER_TIME on a change of trip has no value here.
connection_probability(prev_props, curr_props) ==
    LET d == compute_delay(prev_props.arr_time, curr_props.dep_time, prev_props.ttype,
                           prev_props.trip_id, curr_props.trip_id)
    IN private_connection_probability(d, prev_props.gamma, curr_props.ttype,
                                      prev_props.trip_id, curr_props.trip_id)

(***************************************************************************)
(* timedistance.py: TimeDistance.                                          *)
(***************************************************************************)
INIT_PROPS(time) ==
    [gamma |-> "None", arr_time |-> time, dep_time |-> time,
     ttype |-> INIT_TTYPE, trip_id |-> INIT_TRIP_ID]

\* TimeDistance(time=t): first=True, cum_time=0, prev_props=INIT_PROPS
TimeDistance(time) == [first |-> TRUE, cum_time |-> 0, prev_props |-> INIT_PROPS(time)]

updated(dist) == [dist EXCEPT !.first = FALSE]

\* __lt__ over __call__: the cost is inf while first, else cum_time
Lt(a, b) == /\ ~a.first
            /\ (b.first \/ a.cum_time < b.cum_time)

\* variant of AddProps: the two times of a Foot edge are exchanged
AddProps_Exchanged(self, props) ==
    IF props.ttype = "Foot"
    THEN [props EXCEPT !.dep_time = self.prev_props.dep_time,
                       !.arr_time = self.prev_props.dep_time - props.travel_time]
    ELSE props

\* the props object __add__ works on: a rewritten copy for a Foot edge
AddProps(self, props) ==
    IF props.ttype = "Foot"
    THEN [props EXCEPT !.dep_time = self.prev_props.dep_time - props.travel_time,
                       !.arr_time = self.prev_props.dep_time]
    ELSE props

\* variant of AddStored: the Foot times are written into the graph's own dict
AddStored_InPlace(self, props) ==
    IF props.ttype = "Foot"
    THEN [props EXCEPT !.dep_time = self.prev_props.dep_time - props.travel_time,
                       !.arr_time = self.prev_props.dep_time]
    ELSE props

\* the dict stored in the graph after __add__: untouched (props.copy())
AddStored(self, props) == props

\* variant of Add: the waiting time is left out of the sum
Add_NoWait(self, props) ==
    LET p == AddProps(self, props)
    IN [first |-> self.first,
        cum_time |-> self.cum_time + p.travel_time,
        prev_props |-> p]

\* variant of Add: the waiting time is read forward, the edge's arrival minus
\* the label's departure
Add_WaitReversed(self, props) ==
    LET p == AddProps(self, props)
    IN [first |-> self.first,
        cum_time |-> self.cum_time + p.arr_time - self.prev_props.dep_time + p.travel_time,
        prev_props |-> p]

\* __add__
Add(self, props) ==
    LET p == AddProps(self, props)
    IN [first |-> self.first,
        cum_time |-> self.cum_time + self.prev_props.dep_time - p.arr_time + p.travel_time,
        prev_props |-> p]

previous_dep_time(dist) == dist.prev_props.dep_time

(***************************************************************************)
(* The transport graph: a networkx MultiDiGraph stored reversed (utils.py  *)
(* create_graph): an edge of the real leg v -> u is stored from u to v.    *)
(* A graph is the sequence of its edges in adjacency order (parallel edges *)
(* of a pair are contiguous, scheduled edges before the Foot edge); every  *)
(* stop is a node.                                                         *)
(***************************************************************************)
Names == {"A", "B", "C", "D", "E"}
stop_name_to_id == [name \in Names |-> [stop_id |-> "id_" \o name]]
Stops == {stop_name_to_id[name].stop_id : name \in Names}

Sched(from, to, dep, arr, ttype, trip, gamma) ==
    [u |-> to, v |-> from,
     props |-> [dep_time |-> dep, arr_time |-> arr, travel_time |-> arr - dep,
                ttype |-> ttype, trip_id |-> trip, gamma |-> gamma]]

\* create_graph: a Foot edge has dep_time = arr_time = 0, gamma None, FOOT_TRIP_ID
Foot(from, to, travel_time) ==
    [u |-> to, v |-> from,
     props |-> [dep_time |-> 0, arr_time |-> 0, travel_time |-> travel_time,
                ttype |-> FOOT_TTYPE, trip_id |-> FOOT_TRIP_ID, gamma |-> "None"]]

\* The timetable the graphs are drawn from (times in seconds).  The legs of
\* a stop are grouped by their other stop, as networkx iterates them.
Catalogue ==
    << Sched("id_C", "id_D", 1800, 4500, "Bus", 32, "None"),
       Sched("id_C", "id_D", 5400, 6300, "Bus", 33, "gFast"),
       Sched("id_C", "id_D", 6300, 7200, "Bus", 31, "None"),
       Sched("id_B", "id_D", 2700, 4500, "ICE", 11, "gFast"),
       Sched("id_A", "id_D", 0, 4500, "Bus", 41, "None"),
       Sched("id_B", "id_C", 5400, 6300, "Tram", 21, "None"),
       Sched("id_B", "id_C", 3600, 4500, "S-Bahn", 22, "gFast"),
       Foot("id_B", "id_C", 300),
       Sched("id_A", "id_C", 3600, 4500, "S-Bahn", 51, "gFast"),
       Sched("id_A", "id_C", 2700, 4500, "Tram", 52, "gFast"),
       Sched("id_A", "id_B", 900, 1800, "ICE", 11, "gSlow"),
       Sched("id_A", "id_B", 1800, 2700, "S-Bahn", 12, "gFast"),
       Sched("id_A", "id_B", 3600, 4500, "ICE", 13, "gFast"),
       Foot("id_A", "id_B", 300),
       Sched("id_A", "id_D", 6000, 6380, "Tram", 42, "gFast"),
       Sched("id_A", "id_C", 1000, 4000, "Bus", 53, "None"),
       Sched("id_A", "id_C", 3000, 4000, "Bus", 54, "None"),
       Sched("id_E", "id_D", 1800, 4500, "Bus", 61, "None"),
       Sched("id_E", "id_D", 6300, 7200, "Bus", 62, "None"),
       Foot("id_E", "id_D", 300),
       Sched("id_A", "id_E", 5800, 6000, "Bus", 71, "None"),
       Sched("id_B", "id_A", 2800, 2900, "Bus", 81, "None") >>

ArrTimes == {7200}
Thresholds == {Prob(8, 10), Prob(1, 2)}

\* the graph holding the Catalogue entries picked by ks, in Catalogue order;
\* the EdgeKey of an edge is its Catalogue index
RECURSIVE Pick(_, _)
Pick(ks, k) ==
    IF k > Len(Catalogue) THEN <<>>
    ELSE IF k \in ks
         THEN <<[u |-> Catalogue[k].u, v |-> Catalogue[k].v, key |-> k,
                 props |-> Catalogue[k].props]>> \o Pick(ks, k + 1)
         ELSE Pick(ks, k + 1)

RECURSIVE SubsetsUpTo(_, _)
SubsetsUpTo(S, n) ==
    IF n = 0 THEN {{}}
    ELSE LET smaller == SubsetsUpTo(S, n - 1)
         IN smaller \cup {s \cup {x} : s \in smaller, x \in S}

\* the trips that run on the network of five stops only
WideTrips == {42, 53, 54, 61, 62, 71, 81}

\* the legs of the network of four stops
RequestKeys ==
    {k \in DOMAIN Catalogue :
        /\ Catalogue[k].props.trip_id \notin WideTrips
        /\ "id_E" \notin {Catalogue[k].u, Catalogue[k].v}}

Graphs == {Pick(ks, 1) : ks \in SubsetsUpTo(RequestKeys, MaxEdges)}

\* G.out_edges(stop, data=True)
out_edges(g, stop) == SelectSeq(g, LAMBDA e : e.u = stop)

(***************************************************************************)
(* State of one request.                                                   *)
(***************************************************************************)
VARIABLES
    G,            \* self.G of the Routing object the request is made on
    args,         \* the request: call, start, end, arr_time, threshold, max_iter, number_of_routes
    pc,           \* "call", "search", "returned", "loop", "done"
    routingG,     \* the graph the running search reads: "G" (self.G) or "graph" (robust's copy)
    distances,    \* stochastic_dijkstra: label of every node
    prev,         \* stochastic_dijkstra: predecessor table
    visited,      \* stochastic_dijkstra: visited set
    queue,        \* stochastic_dijkstra: entries (label at the time of put, node)
    ret,          \* value returned by the last search: <<>> for None, else <<route>>
    graph,        \* robust: private copy of the graph
    routes_list,  \* robust
    route,        \* robust: most robust route so far, <<>> before the first
    proba,        \* robust: its probability
    weakest,      \* robust: (u, v, props) of the last route found
    i,            \* robust: loop counter, 0 before the first search has returned
    result,       \* value returned by the request: <<>> for None, else <<value>>
    found,        \* history: every route found by a search of this request, in order
    searches,     \* history: the number of searches this request has started
    steps,        \* history: the number of steps this request has taken
    other,        \* the local state of a second request on the same Routing object
    active,       \* the request (1 or 2) whose local state the variables above hold
    delay,        \* one call of Delay.connection_probability: pc, prev_props, curr_props, ret
    addition      \* one call of TimeDistance.__add__: pc, self, props, ret

vars == <<G, args, pc, routingG, distances, prev, visited, queue, ret, graph,
          routes_list, route, proba, weakest, i, result, found, searches,
          steps, other, active, delay, addition>>

searchVars == <<distances, prev, visited, queue>>
robustVars == <<routes_list, route, proba, weakest, i>>
outside == <<other, active, delay, addition>>

NoPrev == "none"
NoEdge == [u |-> "none", v |-> "none", props |-> INIT_PROPS(0)]
\* no second request; no call of connection_probability on its own
NoOther == [pc |-> "none"]
NoDelay == [pc |-> "none"]
\* no call of __add__ on its own
NoAddition == [pc |-> "none"]

Args ==
    [call : {"stochastic_dijkstra"}, start : {"A", "B"}, end : {"D"}, arr_time : ArrTimes,
     threshold : Thresholds, max_iter : {1}, number_of_routes : {1}]
    \cup
    [call : {"robust"}, start : {"A", "B"}, end : {"D"}, arr_time : ArrTimes,
     threshold : Thresholds, max_iter : {1, MaxIter}, number_of_routes : {1, MaxRoutes}]

\* names_format: start and end are resolved through stop_name_to_id
startId == stop_name_to_id[args.start].stop_id
endId == stop_name_to_id[args.end].stop_id

\* the local variables of a request before its call
Locals0 ==
    /\ routingG = "G"
    /\ distances = <<>>
    /\ prev = <<>>
    /\ visited = {}
    /\ queue = <<>>
    /\ ret = <<>>
    /\ graph = <<>>
    /\ routes_list = <<>>
    /\ route = <<>>
    /\ proba = POne
    /\ weakest = NoEdge
    /\ i = 0
    /\ result = <<>>
    /\ found = <<>>
    /\ searches = 0
    /\ steps = 0

\* one request on a Routing object
Init ==
    /\ G \in Graphs
    /\ args \in Args
    /\ pc = "call"
    /\ Locals0
    /\ other = NoOther
    /\ active = 1
    /\ delay = NoDelay
    /\ addition = NoAddition

(***************************************************************************)
(* routing.py: Routing.stochastic_dijkstra.                                *)
(***************************************************************************)
isFoot(props) == props.ttype = "Foot"

consecutiveFoot(props, prev_props) == isFoot(props) /\ prev_props.ttype = "Foot"

\* variant of inTimeRange: the arrival is not compared with the next departure
inTimeRange_NoArrival(props, previous_dep, start_dist, arr_time) ==
    /\ props.arr_time >= previous_dep - MAX_WAITING_TIME
    /\ (start_dist.first \/ props.dep_time >= arr_time - start_dist.cum_time)

\* current_best_dep_time = arr_time - distances[start](): -inf while start is first
inTimeRange(props, previous_dep, start_dist, arr_time) ==
    /\ previous_dep >= props.arr_time
    /\ props.arr_time >= previous_dep - MAX_WAITING_TIME
    /\ (start_dist.first \/ props.dep_time >= arr_time - start_dist.cum_time)

\* variant of enoughProba: the comparison is strict
enoughProba_Strict(props, prev_props, threshold) ==
    PLt(threshold, connection_probability(props, prev_props))

enoughProba(props, prev_props, threshold) ==
    PGeq(connection_probability(props, prev_props), threshold)

time_filter(e, prev_props, previous_dep, start_dist, arr_time, threshold) ==
    /\ (isFoot(e.props) \/ inTimeRange(e.props, previous_dep, start_dist, arr_time))
    /\ ~consecutiveFoot(e.props, prev_props)
    /\ enoughProba(e.props, prev_props, threshold)

\* neighbours(stop): the eligible out-edges, in the graph's order
neighbours(g, dists, stop) ==
    SelectSeq(out_edges(g, stop),
              LAMBDA e : time_filter(e, dists[stop].prev_props, previous_dep_time(dists[stop]),
                                     dists[startId], args.arr_time, args.threshold))

\* variant of RelaxEdge: the stop is queued at every improvement of its label
RelaxEdge_NoVisited(e, curr, st) ==
    LET new_dist == Add(st.distances[curr], e.props)
    IN IF Lt(new_dist, st.distances[e.v])
       THEN LET d2 == [st.distances EXCEPT ![e.v] = updated(new_dist)]
            IN [distances |-> d2,
                prev |-> [st.prev EXCEPT ![e.v] = curr],
                visited |-> st.visited \cup {e.v},
                queue |-> Append(st.queue, [dist |-> d2[e.v], node |-> e.v]),
                g |-> st.g]
       ELSE st

\* variant of RelaxEdge: the predecessor is written before the comparison
RelaxEdge_PrevAlways(e, curr, st) ==
    LET new_dist == Add(st.distances[curr], e.props)
        pv == [st.prev EXCEPT ![e.v] = curr]
    IN IF Lt(new_dist, st.distances[e.v])
       THEN LET d2 == [st.distances EXCEPT ![e.v] = updated(new_dist)]
            IN [distances |-> d2,
                prev |-> pv,
                visited |-> st.visited \cup {e.v},
                queue |-> IF e.v \notin st.visited
                          THEN Append(st.queue, [dist |-> d2[e.v], node |-> e.v])
                          ELSE st.queue,
                g |-> st.g]
       ELSE [st EXCEPT !.prev = pv]

\* lines 110-116 for one edge; st = [distances, prev, visited, queue, g]
RelaxEdge(e, curr, st) ==
    LET new_dist == Add(st.distances[curr], e.props)
        stored == [j \in DOMAIN st.g |->
                     IF st.g[j].key = e.key
                     THEN [st.g[j] EXCEPT !.props = AddStored(st.distances[curr], e.props)]
                     ELSE st.g[j]]
    IN IF Lt(new_dist, st.distances[e.v])
       THEN LET d2 == [st.distances EXCEPT ![e.v] = updated(new_dist)]
            IN [distances |-> d2,
                prev |-> [st.prev EXCEPT ![e.v] = curr],
                visited |-> st.visited \cup {e.v},
                queue |-> IF e.v \notin st.visited
                          THEN Append(st.queue, [dist |-> d2[e.v], node |-> e.v])
                          ELSE st.queue,
                g |-> stored]
       ELSE [st EXCEPT !.g = stored]

RECURSIVE Relax(_, _, _, _)
Relax(es, k, curr, st) ==
    IF k > Len(es) THEN st ELSE Relax(es, k + 1, curr, RelaxEdge(es[k], curr, st))

\* queue.get(): an entry no other entry is smaller than
IsMin(q, k) == \A j \in DOMAIN q : ~Lt(q[j].dist, q[k].dist)

RemoveAt(q, k) == SubSeq(q, 1, k - 1) \o SubSeq(q, k + 1, Len(q))

searched == IF routingG = "G" THEN G ELSE graph

\* lines 98-104: the labels, predecessors, visited set and queue a search on
\* the graph g starts with
search_start(g) ==
    [distances |-> [v \in Stops |->
                      IF v = endId THEN updated(TimeDistance(args.arr_time))
                      ELSE TimeDistance(args.arr_time)],
     prev |-> [v \in Stops |-> NoPrev],
     visited |-> {},
     queue |-> <<[dist |-> updated(TimeDistance(args.arr_time)), node |-> endId]>>,
     g |-> g]

\* lines 92-104
SearchInit(which) ==
    /\ routingG' = which
    /\ distances' = search_start(<<>>).distances
    /\ prev' = search_start(<<>>).prev
    /\ visited' = search_start(<<>>).visited
    /\ queue' = search_start(<<>>).queue
    /\ searches' = searches + 1

\* one iteration of the while loop, lines 106-116, on st = [distances, prev,
\* visited, queue, g], when queue.get() returns entry k
PopStep(st, k) ==
    LET curr == st.queue[k].node
        st0 == [st EXCEPT !.visited = st.visited \cup {curr},
                          !.queue = RemoveAt(st.queue, k)]
    IN Relax(neighbours(st.g, st.distances, curr), 1, curr, st0)

Pop ==
    /\ pc = "search"
    /\ steps' = steps + 1
    /\ queue # <<>>
    /\ \E k \in DOMAIN queue :
         /\ IsMin(queue, k)
         /\ LET st1 == PopStep([distances |-> distances, prev |-> prev, visited |-> visited,
                                queue |-> queue, g |-> searched], k)
            IN /\ distances' = st1.distances
               /\ prev' = st1.prev
               /\ visited' = st1.visited
               /\ queue' = st1.queue
               /\ IF routingG = "G"
                  THEN G' = st1.g /\ graph' = graph
                  ELSE graph' = st1.g /\ G' = G
    /\ UNCHANGED <<args, pc, routingG, ret, robustVars, result, found, searches, outside>>

\* build_route, lines 45-61
RECURSIVE Walk(_, _)
Walk(node, pv) == IF node = endId THEN <<node>> ELSE <<node>> \o Walk(pv[node], pv)

\* variant of build_route: dist is advanced before the stop is appended
build_route_Shifted(dists, pv) ==
    IF pv[startId] = NoPrev THEN <<>>
    ELSE LET connections == Walk(startId, pv)
         IN <<[connections |-> connections,
               distances |-> [k \in DOMAIN connections |->
                                IF k < Len(connections) THEN dists[connections[k + 1]]
                                ELSE dists[connections[k]]]]>>

build_route(dists, pv) ==
    IF pv[startId] = NoPrev THEN <<>>
    ELSE LET connections == Walk(startId, pv)
         IN <<[connections |-> connections,
               distances |-> [k \in DOMAIN connections |-> dists[connections[k]]]]>>

\* the queue is empty: line 118, return build_route()
Return ==
    /\ pc = "search"
    /\ steps' = steps + 1
    /\ queue = <<>>
    /\ LET r == build_route(distances, prev)
       IN /\ ret' = r
          /\ found' = found \o r
          /\ IF args.call = "stochastic_dijkstra"
             THEN pc' = "done" /\ result' = r
             ELSE pc' = "returned" /\ result' = result
    /\ distances' = <<>>
    /\ prev' = <<>>
    /\ visited' = {}
    /\ UNCHANGED <<G, args, routingG, queue, graph, robustVars, searches, outside>>

\* a direct call of stochastic_dijkstra
CallDijkstra ==
    /\ pc = "call"
    /\ steps' = steps + 1
    /\ args.call = "stochastic_dijkstra"
    /\ SearchInit("G")
    /\ pc' = "search"
    /\ UNCHANGED <<G, args, ret, graph, robustVars, result, found, outside>>

(***************************************************************************)
(* route.py: Route.                                                        *)
(***************************************************************************)
\* variant of least_update: a strict comparison keeps the first of equal pairs
least_update_Strict(next_proba, least_proba) == PLt(next_proba, least_proba)

\* line 55: the pair replaces the least probable one
least_update(next_proba, least_proba) == PLeq(next_proba, least_proba)

\* the loop of success_proba from pair k on; acc = [proba, least_proba, edge]
RECURSIVE success_loop(_, _, _)
success_loop(r, k, acc) ==
    IF k >= Len(r.connections) THEN acc
    ELSE LET next_proba == connection_probability(r.distances[k].prev_props,
                                                  r.distances[k + 1].prev_props)
             p2 == PMul(acc.proba, next_proba)
         IN success_loop(r, k + 1,
                IF least_update(next_proba, acc.least_proba)
                THEN [proba |-> p2, least_proba |-> next_proba,
                      edge |-> [u |-> r.connections[k + 1], v |-> r.connections[k],
                                props |-> r.distances[k].prev_props]]
                ELSE [acc EXCEPT !.proba = p2])

\* success_proba: (proba, least_proba_edge); the edge is unbound (NoEdge here)
\* for a route of one stop, which build_route never returns
success_proba(r) ==
    LET acc == success_loop(r, 1, [proba |-> POne, least_proba |-> POne, edge |-> NoEdge])
    IN [proba |-> acc.proba, edge |-> acc.edge]

dep_time(r) == r.distances[1].prev_props.dep_time
travel_time(r) == r.distances[1].cum_time

\* variant of arr_time: the first leg's arr_time is read instead of its dep_time
arr_time_FromArrival(r) == r.distances[1].cum_time + r.distances[1].prev_props.arr_time

arr_time(r) == travel_time(r) + r.distances[1].prev_props.dep_time

(***************************************************************************)
(* routing.py: Routing.robust.                                             *)
(***************************************************************************)
\* variant of isSameEdge: a Foot leg is compared on its times like any other
isSameEdge_NoFoot(e, props) ==
    /\ e.props.dep_time = props.dep_time
    /\ e.props.arr_time = props.arr_time
    /\ e.props.trip_id = props.trip_id

isSameEdge(e, props) ==
    \/ /\ e.props.dep_time = props.dep_time
       /\ e.props.arr_time = props.arr_time
       /\ e.props.trip_id = props.trip_id
    \/ (props.ttype = "Foot" /\ e.props.ttype = "Foot")

\* graph[u][v]: the parallel edges from u to v, in key order
between(g, u, v) == SelectSeq(g, LAMBDA e : e.u = u /\ e.v = v)

\* variant of find_edge_key: the first edge of the pair, whatever its properties
find_edge_key_First(g, u, v, props) == between(g, u, v)[1].key

\* find_edge_key: the key of the first matching edge, 0 for None
find_edge_key(g, u, v, props) ==
    LET hits == SelectSeq(between(g, u, v), LAMBDA e : isSameEdge(e, props))
    IN IF hits = <<>> THEN 0 ELSE hits[1].key

\* variant of remove_edge: every parallel edge of the pair is removed
remove_edge_AllParallel(g, u, v, key) == SelectSeq(g, LAMBDA e : ~(e.u = u /\ e.v = v))

\* graph.remove_edge(u, v, key=key); with key None networkx removes the edge
\* of the pair that was added last
remove_edge(g, u, v, key) ==
    LET es == between(g, u, v)
        k == IF key = 0 THEN es[Len(es)].key ELSE key
    IN SelectSeq(g, LAMBDA e : e.key # k)

\* variant of accept: every route found is kept
accept_Always(list, r, p, threshold) == Append(list, r)

\* variant of accept: the comparison is strict
accept_Strict(list, r, p, threshold) ==
    IF PLt(threshold, p) THEN Append(list, r) ELSE list

\* lines 150-152 and 197-198: a route meeting the threshold is kept
accept(list, r, p, threshold) ==
    IF PGeq(p, threshold) THEN Append(list, r) ELSE list

\* variant of better: the comparison is reversed
better_Reversed(old_proba, new_proba) == PLt(new_proba, old_proba)

\* line 201: the new route replaces the most robust one
better(old_proba, new_proba) == PLt(old_proba, new_proba)

\* variant of fallback: an empty list is returned as it is
fallback_None(list, best) == list

\* lines 183-187 and 207-210: an empty list gets the most robust route
fallback(list, best) ==
    IF list = <<>> THEN Append(list, best) ELSE list

\* variant of shared_after: graph is self.G itself, no copy is taken
shared_after_Alias(shared, copy) == copy

\* line 139: graph is a copy of self.G, so an edge removed from graph (line 176)
\* stays in self.G
shared_after(shared, copy) == shared

\* variant of no_more_routes: None is returned when a later search finds nothing
no_more_routes_None(list, best) == <<>>

\* lines 181-188: a later search finds no route, the list is returned
no_more_routes(list, best) == <<fallback(list, best)>>

\* lines 138-141: the first search runs on self.G
CallRobust ==
    /\ pc = "call"
    /\ steps' = steps + 1
    /\ args.call = "robust"
    /\ routes_list' = <<>>
    /\ graph' = G
    /\ SearchInit("G")
    /\ pc' = "search"
    /\ UNCHANGED <<G, args, ret, route, proba, weakest, i, result, found, outside>>

\* lines 142-152 and 171, after the first search has returned
RobustFirst ==
    /\ pc = "returned"
    /\ steps' = steps + 1
    /\ i = 0
    /\ IF ret = <<>>
       THEN /\ result' = <<>>
            /\ pc' = "done"
            /\ UNCHANGED robustVars
       ELSE LET sp == success_proba(ret[1])
            IN /\ route' = ret
               /\ proba' = sp.proba
               /\ weakest' = sp.edge
               /\ routes_list' = accept(routes_list, ret[1], sp.proba, args.threshold)
               /\ i' = 1
               /\ pc' = "loop"
               /\ result' = result
    /\ UNCHANGED <<G, args, routingG, searchVars, ret, graph, found, searches, outside>>

\* variant of LoopCond: the bound on the iterations is off by one
LoopCond_OffByOne == i <= args.max_iter /\ Len(routes_list) < args.number_of_routes

\* variant of LoopCond: the number of accepted routes is not looked at
LoopCond_NoCount == i < args.max_iter

\* the loop condition of line 172
LoopCond == i < args.max_iter /\ Len(routes_list) < args.number_of_routes

\* lines 172-179: remove the weakest edge from the copy and search again;
\* graph[u][v] of a pair without an edge raises
RobustIter ==
    /\ pc = "loop"
    /\ steps' = steps + 1
    /\ LoopCond
    /\ IF between(graph, weakest.u, weakest.v) = <<>>
       THEN /\ pc' = "raised"
            /\ UNCHANGED <<G, graph, routingG, searchVars, searches>>
       ELSE LET to_remove == find_edge_key(graph, weakest.u, weakest.v, weakest.props)
            IN /\ graph' = remove_edge(graph, weakest.u, weakest.v, to_remove)
               /\ G' = shared_after(G, graph')
               /\ SearchInit("graph")
               /\ pc' = "search"
    /\ UNCHANGED <<args, ret, robustVars, result, found, outside>>

\* lines 181-204, after a search of the loop has returned
RobustNew ==
    /\ pc = "returned"
    /\ steps' = steps + 1
    /\ i >= 1
    /\ IF ret = <<>>
       THEN /\ routes_list' = fallback(routes_list, route[1])
            /\ result' = no_more_routes(routes_list, route[1])
            /\ pc' = "done"
            /\ UNCHANGED <<route, proba, weakest, i>>
       ELSE LET sp == success_proba(ret[1])
            IN /\ weakest' = sp.edge
               /\ routes_list' = accept(routes_list, ret[1], sp.proba, args.threshold)
               /\ IF better(proba, sp.proba)
                  THEN proba' = sp.proba /\ route' = ret
                  ELSE proba' = proba /\ route' = route
               /\ i' = i + 1
               /\ pc' = "loop"
               /\ result' = result
    /\ UNCHANGED <<G, args, routingG, searchVars, ret, graph, found, searches, outside>>

\* lines 206-212, when the loop ends
RobustEnd ==
    /\ pc = "loop"
    /\ steps' = steps + 1
    /\ ~LoopCond
    /\ routes_list' = fallback(routes_list, route[1])
    /\ result' = <<routes_list'>>
    /\ pc' = "done"
    /\ UNCHANGED <<G, args, routingG, searchVars, ret, graph, route, proba, weakest, i, found,
                   searches, outside>>

Next ==
    \/ CallDijkstra
    \/ CallRobust
    \/ Pop
    \/ Return
    \/ RobustFirst
    \/ RobustIter
    \/ RobustNew
    \/ RobustEnd

Spec == Init /\ [][Next]_vars

(***************************************************************************)
(* One request on a network of five stops: a line through E beside the     *)
(* lines of the timetable, and legs between A and the other stops.         *)
(***************************************************************************)
WideKeys ==
    {k \in DOMAIN Catalogue :
        \/ /\ Catalogue[k].props.trip_id \in WideTrips \cup {11, 31}
           /\ Catalogue[k].props.trip_id = 11 => Catalogue[k].u = "id_D"
        \/ Catalogue[k] \in {Foot("id_A", "id_B", 300), Foot("id_E", "id_D", 300)}}
WideGraphs == {Pick(ks, 1) : ks \in SUBSET WideKeys}

WideArgs ==
    [call : {"stochastic_dijkstra"}, start : {"A", "B"}, end : {"D"}, arr_time : ArrTimes,
     threshold : Thresholds, max_iter : {1}, number_of_routes : {1}]
    \cup
    [call : {"robust"}, start : {"B"}, end : {"D"}, arr_time : ArrTimes,
     threshold : {Prob(8, 10)}, max_iter : {MaxIter}, number_of_routes : {MaxRoutes}]

WideInit ==
    /\ G \in WideGraphs
    /\ args \in WideArgs
    /\ pc = "call"
    /\ Locals0
    /\ other = NoOther
    /\ active = 1
    /\ delay = NoDelay
    /\ addition = NoAddition

WideSpec == WideInit /\ [][Next]_vars

(***************************************************************************)
(* Two requests on the same Routing object, interleaved step by step.  The *)
(* Routing object (self.G) is shared; every other variable is a local of   *)
(* the call, so the variables hold the locals of the request that runs and *)
(* other those of the request that waits.                                  *)
(***************************************************************************)
locals ==
    [args |-> args, pc |-> pc, routingG |-> routingG, distances |-> distances,
     prev |-> prev, visited |-> visited, queue |-> queue, ret |-> ret, graph |-> graph,
     routes_list |-> routes_list, route |-> route, proba |-> proba, weakest |-> weakest,
     i |-> i, result |-> result, found |-> found, searches |-> searches, steps |-> steps]

\* the locals of a request with arguments a before its call (as Locals0)
locals0(a) ==
    [args |-> a, pc |-> "call", routingG |-> "G", distances |-> <<>>,
     prev |-> <<>>, visited |-> {}, queue |-> <<>>, ret |-> <<>>, graph |-> <<>>,
     routes_list |-> <<>>, route |-> <<>>, proba |-> POne, weakest |-> NoEdge,
     i |-> 0, result |-> <<>>, found |-> <<>>, searches |-> 0, steps |-> 0]

\* the legs the graphs of two requests are drawn from
ConcKeys == {2, 3, 4, 7, 8, 9, 10, 12}
ConcGraphs == {Pick(ks, 1) : ks \in SubsetsUpTo(ConcKeys, MaxConcEdges)}

ConcArgs ==
    [call : {"robust"}, start : {"A", "B"}, end : {"D"}, arr_time : ArrTimes,
     threshold : Thresholds, max_iter : {MaxIter}, number_of_routes : {1}]
    \cup
    [call : {"stochastic_dijkstra"}, start : {"B"}, end : {"D"}, arr_time : ArrTimes,
     threshold : {Prob(8, 10)}, max_iter : {1}, number_of_routes : {1}]

ConcInit ==
    /\ G \in ConcGraphs
    /\ args \in ConcArgs
    /\ pc = "call"
    /\ Locals0
    /\ other \in {locals0(a) : a \in ConcArgs}
    /\ active = 1
    /\ delay = NoDelay
    /\ addition = NoAddition

\* the scheduler lets the waiting request run
Switch ==
    /\ other.pc \notin {"none", "done", "raised"}
    /\ other' = locals
    /\ active' = 3 - active
    /\ args' = other.args
    /\ pc' = other.pc
    /\ routingG' = other.routingG
    /\ distances' = other.distances
    /\ prev' = other.prev
    /\ visited' = other.visited
    /\ queue' = other.queue
    /\ ret' = other.ret
    /\ graph' = other.graph
    /\ routes_list' = other.routes_list
    /\ route' = other.route
    /\ proba' = other.proba
    /\ weakest' = other.weakest
    /\ i' = other.i
    /\ result' = other.result
    /\ found' = other.found
    /\ searches' = other.searches
    /\ steps' = other.steps
    /\ UNCHANGED <<G, delay, addition>>

ConcNext ==
    \/ Next
    \/ Switch

ConcSpec == ConcInit /\ [][ConcNext]_vars

(***************************************************************************)
(* delay.py: one call of Delay.connection_probability on a pair of edge    *)
(* records, outside any request.                                           *)
(***************************************************************************)
\* the values of ttype: the modes of the graph and the sentinel of INIT_PROPS
Modes == DOMAIN EXTRA_TRANSFER_TIME \cup {INIT_TTYPE}
DelayTrips == {INIT_TRIP_ID, FOOT_TRIP_ID, 1, 2}
DelayArrivals == {1000}
DelayDepartures == {900, 1900, 2100}

\* EdgeProps, with the keys connection_probability reads
PrevRecords ==
    [ttype : Modes, trip_id : DelayTrips, gamma : Gammas \cup {"None"},
     dep_time : {400}, arr_time : DelayArrivals]
CurrRecords ==
    [ttype : Modes, trip_id : DelayTrips, gamma : {"None"},
     dep_time : DelayDepartures, arr_time : {2500}]

DelayInit ==
    /\ G = <<>>
    /\ args = [call |-> "none"]
    /\ pc = "none"
    /\ Locals0
    /\ other = NoOther
    /\ active = 1
    /\ delay \in [pc : {"call"}, prev_props : PrevRecords, curr_props : CurrRecords,
                   ret : {<<>>}]
    /\ addition = NoAddition

\* connection_probability, lines 66-84: the KeyError of line 42 ends the call
ConnectionProbability ==
    /\ delay.pc = "call"
    /\ delay' =
         IF compute_delay_raises(delay.prev_props.ttype, delay.prev_props.trip_id,
                                 delay.curr_props.trip_id)
         THEN [delay EXCEPT !.pc = "raised"]
         ELSE [delay EXCEPT !.pc = "done",
                            !.ret = <<connection_probability(delay.prev_props,
                                                             delay.curr_props)>>]
    /\ UNCHANGED <<G, args, pc, routingG, searchVars, ret, graph, robustVars, result, found,
                   searches, steps, other, active, addition>>

DelayNext == ConnectionProbability

DelaySpec == DelayInit /\ [][DelayNext]_vars

(***************************************************************************)
(* timedistance.py: one call of TimeDistance.__add__ on a label and the    *)
(* attributes of an edge, outside any request.                             *)
(***************************************************************************)
\* the attributes of the edges of the timetable
EdgeRecords == {Catalogue[k].props : k \in DOMAIN Catalogue}

\* labels: the uninitialised one, the seed of the destination, and for every
\* edge the label that ends with it after the seed (a Foot edge with its
\* times rewritten)
Labels ==
    {TimeDistance(t) : t \in ArrTimes}
    \cup {updated(TimeDistance(t)) : t \in ArrTimes}
    \cup {updated(Add(updated(TimeDistance(t)), p)) : t \in ArrTimes, p \in EdgeRecords}

AdditionInit ==
    /\ G = <<>>
    /\ args = [call |-> "none"]
    /\ pc = "none"
    /\ Locals0
    /\ other = NoOther
    /\ active = 1
    /\ delay = NoDelay
    /\ addition \in [pc : {"call"}, self : Labels, props : EdgeRecords, ret : {<<>>}]

\* __add__, lines 72-91
AddCall ==
    /\ addition.pc = "call"
    /\ addition' = [addition EXCEPT !.pc = "done",
                                    !.ret = <<Add(addition.self, addition.props)>>]
    /\ UNCHANGED <<G, args, pc, routingG, searchVars, ret, graph, robustVars, result, found,
                   searches, steps, other, active, delay>>

AdditionNext == AddCall

AdditionSpec == AdditionInit /\ [][AdditionNext]_vars

(***************************************************************************)
(* Claims.                                                                 *)
(***************************************************************************)
\* the pairs of consecutive legs of a route: k and k + 1 are both real edges
\* when k + 1 is not the last stop (whose label is the Init sentinel)
LegPairs(r) == {k \in 1..(Len(r.connections) - 1) : k + 1 < Len(r.connections)}
AllPairs(r) == 1..(Len(r.connections) - 1)
Leg(r, k) == r.distances[k].prev_props

\* C1: waiting cap.  In every route returned by a search, for every pair of
\* consecutive legs the later leg departs at most MAX_WAITING_TIME after the
\* earlier leg arrives, or the later leg is a Foot edge.
C1_WaitingCap ==
    \A n \in DOMAIN found : \A k \in LegPairs(found[n]) :
        \/ Leg(found[n], k + 1).dep_time - Leg(found[n], k).arr_time <= MAX_WAITING_TIME
        \/ Leg(found[n], k + 1).ttype = "Foot"

\* C2: no double walk.  No two consecutive legs of a returned route are both Foot.
C2_NoDoubleWalk ==
    \A n \in DOMAIN found : \A k \in LegPairs(found[n]) :
        ~(Leg(found[n], k).ttype = "Foot" /\ Leg(found[n], k + 1).ttype = "Foot")

\* C3: probability gate on the result.  Every per-transfer probability of a
\* returned route, the last pair with the Init sentinel included, is at least
\* the threshold.
C3_GateOnResult ==
    \A n \in DOMAIN found : \A k \in AllPairs(found[n]) :
        PGeq(connection_probability(Leg(found[n], k), Leg(found[n], k + 1)), args.threshold)

\* C4: arrival bound.  arr_time() of every returned route is at most the
\* target arrival time.
C4_ArrivalBound ==
    \A n \in DOMAIN found : arr_time(found[n]) <= args.arr_time

\* C5: whenever the first search of robust returns a route, robust returns a
\* non-empty list (and does not raise), whichever exit is taken.
C5_RobustNonEmpty ==
    (args.call = "robust" /\ found # <<>>) =>
        /\ pc # "raised"
        /\ pc = "done" => (result # <<>> /\ Len(result[1]) >= 1)

\* success probability of a route
P(r) == success_proba(r).proba

\* C6: if the list returned by robust holds a route below the threshold, it
\* has exactly one element and no route found by the call met the threshold;
\* otherwise every route of the list meets the threshold.
C6_ThresholdCompliance ==
    (args.call = "robust" /\ pc = "done" /\ result # <<>>) =>
        LET list == result[1]
        IN IF \E k \in DOMAIN list : PLt(P(list[k]), args.threshold)
           THEN /\ Len(list) = 1
                /\ \A n \in DOMAIN found : PLt(P(found[n]), args.threshold)
           ELSE \A k \in DOMAIN list : PGeq(P(list[k]), args.threshold)

\* C7: when the first search succeeds and no route found by the call meets
\* the threshold, robust returns one route, of the maximum success
\* probability among the routes found.
C7_FallbackMostRobust ==
    (/\ args.call = "robust" /\ pc = "done" /\ found # <<>>
     /\ \A n \in DOMAIN found : PLt(P(found[n]), args.threshold)) =>
        /\ result # <<>>
        /\ Len(result[1]) = 1
        /\ \A n \in DOMAIN found : PGeq(P(result[1][1]), P(found[n]))

\* C8: the shared graph self.G is never modified by a step of a request.
C8_SharedGraphUnchanged == [][G' = G]_vars

(***************************************************************************)
(* C9: the itineraries of the searched graph, taken backward from the      *)
(* destination.  A label is a stop with the (Foot-rewritten) leg leaving   *)
(* it; a leg is eligible relative to the following leg.                    *)
(***************************************************************************)
EligibleLeg(props, next) ==
    /\ \/ props.ttype = "Foot"
       \/ (next.dep_time >= props.arr_time
           /\ props.arr_time >= next.dep_time - MAX_WAITING_TIME)
    /\ ~(props.ttype = "Foot" /\ next.ttype = "Foot")
    /\ PGeq(connection_probability(props, next), args.threshold)

RECURSIVE Itineraries(_, _)
Itineraries(g, n) ==
    IF n = 0 THEN {[stop |-> endId, legs |-> 0, props |-> INIT_PROPS(args.arr_time)]}
    ELSE LET before == Itineraries(g, n - 1)
         IN before \cup
            {[stop |-> g[j].v, legs |-> l.legs + 1,
              props |-> AddProps([prev_props |-> l.props], g[j].props)] :
                <<l, j>> \in {<<l, j>> \in before \X DOMAIN g :
                                 /\ g[j].u = l.stop
                                 /\ EligibleLeg(g[j].props, l.props)}}

\* C9: when a search returns a route, no eligible itinerary from start to end
\* of the searched graph departs strictly later.
C9_FastestRoute ==
    (pc # "search" /\ ret # <<>>) =>
        \A l \in Itineraries(searched, Cardinality(Stops) - 1) :
            (l.stop = startId /\ l.legs >= 1) => l.props.dep_time <= dep_time(ret[1])

\* the per-transfer probability of pair k of a route
Q(r, k) == connection_probability(Leg(r, k), Leg(r, k + 1))

RECURSIVE Product(_, _)
Product(r, ks) ==
    IF ks = {} THEN POne
    ELSE LET k == CHOOSE x \in ks : TRUE IN PMul(Q(r, k), Product(r, ks \ {k}))

\* the last pair among those of minimal probability
WeakestPair(r) ==
    CHOOSE k \in AllPairs(r) :
        /\ \A j \in AllPairs(r) : PLeq(Q(r, k), Q(r, j))
        /\ \A j \in AllPairs(r) : PEq(Q(r, j), Q(r, k)) => j <= k

\* C10: for a route of N >= 2 stops success_proba returns the product of the
\* q_i and the edge (connections[i+1], connections[i], distances[i].prev_props)
\* of the last pair i of minimal q_i.
C10_WeakestEdge ==
    \A n \in DOMAIN found :
        LET r == found[n]
            k == WeakestPair(r)
        IN Len(r.connections) >= 2 =>
            /\ PEq(success_proba(r).proba, Product(r, AllPairs(r)))
            /\ success_proba(r).edge =
                 [u |-> r.connections[k + 1], v |-> r.connections[k], props |-> Leg(r, k)]

\* the edge e of a graph is leg k of the route r: same stops, same attributes
\* (a Foot leg carries rewritten times)
IsLeg(e, r, k) ==
    /\ e.u = r.connections[k + 1]
    /\ e.v = r.connections[k]
    /\ \/ e.props = Leg(r, k)
       \/ (e.props.ttype = "Foot" /\ Leg(r, k).ttype = "Foot")

\* the edges robust has removed from its copy so far
Removed == {j \in DOMAIN G : \A m \in DOMAIN graph : graph[m].key # G[j].key}

\* a route as its sequence of legs
Legs(r) == [k \in AllPairs(r) |-> <<r.connections[k], r.connections[k + 1], Leg(r, k)>>]

\* C11: in a call of robust, a route returned by a search has no leg among
\* the edges removed before that search, and the routes found by the call are
\* pairwise different as sequences of legs.
C11_DifferentRoutes ==
    args.call = "robust" =>
        /\ (pc = "returned" /\ ret # <<>>) =>
               \A j \in Removed : \A k \in AllPairs(ret[1]) : ~IsLeg(G[j], ret[1], k)
        /\ \A m, n \in DOMAIN found : m < n => Legs(found[m]) # Legs(found[n])

\* the steps one search takes at most: a stop enters the queue once, so
\* there is at most one pop per stop, then the return and the step of robust
\* before and after
MaxSearchSteps == Cardinality(Stops) + 3

\* the guards of the steps: one of them can be taken
CanStep ==
    \/ pc = "call" /\ args.call \in {"stochastic_dijkstra", "robust"}
    \/ pc = "search" /\ queue # <<>> /\ \E k \in DOMAIN queue : IsMin(queue, k)
    \/ pc = "search" /\ queue = <<>>
    \/ pc = "returned" /\ (i = 0 \/ i >= 1)
    \/ pc = "loop" /\ (LoopCond \/ ~LoopCond)

\* C12: in a call of robust with max_iter >= 1, at most max_iter searches are
\* started (the first one counted) and at most max_iter - 1 edges are removed,
\* and the call ends: its steps are bounded by the searches started, the
\* call does not raise, and until it has ended a step is possible.
C12_BoundedWork ==
    args.call = "robust" =>
        /\ searches <= args.max_iter
        /\ pc # "call" => Cardinality(Removed) <= args.max_iter - 1
        /\ steps <= searches * MaxSearchSteps + 1
        /\ pc # "raised"
        /\ pc # "done" => CanStep

\* C13: in a call of robust with number_of_routes >= 1 the list never holds
\* more than number_of_routes routes, the list returned included, and once
\* it holds number_of_routes routes no step removes an edge or starts a search.
C13_RouteCount ==
    [][args.call = "robust" =>
        /\ Len(routes_list') <= args.number_of_routes
        /\ (pc' = "done" /\ result' # <<>>) => Len(result'[1]) <= args.number_of_routes
        /\ Len(routes_list) >= args.number_of_routes =>
              (graph' = graph /\ searches' = searches /\ pc' # "search")]_vars

\* C14: fall-through rule.  A call of connection_probability whose prev ttype
\* has an entry in the penalty table returns exactly 1 when the trips are the
\* same, or curr is a Foot edge, or prev has no gamma.
C14_FallThrough ==
    (/\ delay.pc \notin {"none", "call"}
     /\ delay.prev_props.ttype \in DOMAIN EXTRA_TRANSFER_TIME
     /\ \/ delay.prev_props.trip_id = delay.curr_props.trip_id
        \/ delay.curr_props.ttype = "Foot"
        \/ delay.prev_props.gamma = "None") =>
        /\ delay.pc = "done"
        /\ delay.ret = <<POne>>

\* C15: a call of connection_probability on records whose ttype is a mode or
\* the Init sentinel never raises.
C15_NeverFails == delay.pc # "raised"

\* the penalty of the mode being exited, as the claim lists it
Penalty(ttype) ==
    CASE ttype \in {"Bus", "Foot"} -> 20
      [] ttype = "Tram" -> 30
      [] ttype \in {"S-Bahn", "Extrazug"} -> 100
      [] ttype \in {"InterRegio", "Eurocity", "RegioExpress", "ICE", "Eurostar",
                    "Intercity"} -> 120

\* C16: transfer-penalty rule.  When the trips differ, curr is not a Foot edge
\* and prev has a gamma, the call returns the CDF of prev's gamma at
\* curr.dep_time - prev.arr_time - penalty(prev.ttype).
C16_TransferPenalty ==
    (/\ delay.pc \notin {"none", "call"}
     /\ delay.prev_props.ttype \in {"Bus", "Foot", "Tram", "S-Bahn", "Extrazug", "InterRegio",
                                     "Eurocity", "RegioExpress", "ICE", "Eurostar", "Intercity"}
     /\ delay.prev_props.trip_id # delay.curr_props.trip_id
     /\ delay.curr_props.ttype # "Foot"
     /\ delay.prev_props.gamma # "None") =>
        /\ delay.pc = "done"
        /\ delay.ret = <<GammaCdf(delay.prev_props.gamma,
                                   delay.curr_props.dep_time - delay.prev_props.arr_time
                                     - Penalty(delay.prev_props.ttype))>>

QueueNodes(q) == {q[j].node : j \in DOMAIN q}

\* the stop a step of the search has taken from the queue
Popped == CHOOSE n \in QueueNodes(queue) : n \notin QueueNodes(queue')

LegOfEdge(e, leg) ==
    IF e.props.ttype = "Foot"
    THEN /\ leg.ttype = "Foot"
         /\ [e.props EXCEPT !.dep_time = leg.dep_time, !.arr_time = leg.arr_time] = leg
    ELSE e.props = leg

\* C18: route reconstruction.  When a search ends it returns None exactly
\* when start has no predecessor entry; otherwise the route starts at start,
\* ends at end, and every consecutive pair of its stops is joined by an edge
\* of the searched graph, stored from the later stop to the earlier one, whose
\* attributes are the label of the earlier stop.
C18_ForwardOrder ==
    [][(pc = "search" /\ pc' # "search") =>
         /\ (prev[startId] = NoPrev) <=> (ret' = <<>>)
         /\ ret' # <<>> =>
              LET r == ret'[1]
              IN /\ r.connections[1] = startId
                 /\ r.connections[Len(r.connections)] = endId
                 /\ Len(r.distances) = Len(r.connections)
                 /\ \A k \in AllPairs(r) :
                       \E j \in DOMAIN searched :
                           /\ searched[j].u = r.connections[k + 1]
                           /\ searched[j].v = r.connections[k]
                           /\ LegOfEdge(searched[j], r.distances[k].prev_props)]_vars

\* the only search of the call was the first one and it returned None
FirstSearchFailed == searches = 1 /\ ret = <<>>

\* C20: robust returns None exactly when its first search, on the unmodified
\* graph, finds no route; then no edge was removed and no route was ever
\* found; in every other case it returns a list.
C20_NoRoute ==
    (args.call = "robust" /\ pc = "done") =>
        /\ (result = <<>>) <=> FirstSearchFailed
        /\ FirstSearchFailed => (Removed = {} /\ graph = G /\ found = <<>>)
        /\ ~FirstSearchFailed =>
              (found # <<>> /\ result # <<>> /\ DOMAIN result[1] = 1..Len(result[1]))

(***************************************************************************)
(* C19: what a request returns when it runs alone on the graph g: the      *)
(* search and the loop of robust as functions of the graph and the         *)
(* arguments, one outcome per choice of queue.get() among equal costs.     *)
(***************************************************************************)
RECURSIVE SearchAlone(_)
SearchAlone(st) ==
    IF st.queue = <<>> THEN {build_route(st.distances, st.prev)}
    ELSE UNION {SearchAlone(PopStep(st, k)) : k \in {k \in DOMAIN st.queue : IsMin(st.queue, k)}}

\* rs = [graph, routes_list, route, proba, weakest, i] at the test of line 172
RECURSIVE RobustAlone(_)
RobustAlone(rs) ==
    IF ~(rs.i < args.max_iter /\ Len(rs.routes_list) < args.number_of_routes)
    THEN {<<fallback(rs.routes_list, rs.route)>>}
    ELSE LET w == rs.weakest
             g2 == remove_edge(rs.graph, w.u, w.v, find_edge_key(rs.graph, w.u, w.v, w.props))
         IN UNION {IF r = <<>>
                   THEN {<<fallback(rs.routes_list, rs.route)>>}
                   ELSE LET sp == success_proba(r[1])
                        IN RobustAlone(
                             [graph |-> g2,
                              routes_list |-> accept(rs.routes_list, r[1], sp.proba,
                                                     args.threshold),
                              route |-> IF better(rs.proba, sp.proba) THEN r[1] ELSE rs.route,
                              proba |-> IF better(rs.proba, sp.proba) THEN sp.proba
                                        ELSE rs.proba,
                              weakest |-> sp.edge,
                              i |-> rs.i + 1]) :
                   r \in SearchAlone(search_start(g2))}

Alone(g) ==
    IF args.call = "stochastic_dijkstra" THEN SearchAlone(search_start(g))
    ELSE UNION {IF r = <<>> THEN {<<>>}
                ELSE LET sp == success_proba(r[1])
                     IN RobustAlone([graph |-> g,
                                     routes_list |-> accept(<<>>, r[1], sp.proba,
                                                            args.threshold),
                                     route |-> r[1], proba |-> sp.proba,
                                     weakest |-> sp.edge, i |-> 1]) :
                r \in SearchAlone(search_start(g))}

\* C19: two interleaved requests do not interfere.  Whenever a request has
\* ended, in any interleaving with the steps of the other request, its result
\* is one it returns when it runs alone on the graph.
C19_NoInterference == pc = "done" => result \in Alone(G)

\* the state of the running search, as PopStep takes it
search_state ==
    [distances |-> distances, prev |-> prev, visited |-> visited, queue |-> queue,
     g |-> searched]

\* C21: early exit is equivalent to draining the queue.  When start is taken
\* from the queue, the route built at that moment (the result of a search
\* that stops there) is the route every continuation of the search until the
\* queue is empty returns: same stops, same labels.
C21_EarlyExit ==
    [][(pc = "search" /\ pc' = "search" /\ Popped = startId) =>
          SearchAlone(search_state') = {build_route(distances, prev)}]_vars

(***************************************************************************)
(* C22: the search with the pruning term (line 83) taken out of the edge   *)
(* filter, everything else as in the source.                               *)
(***************************************************************************)
inTimeRange_NoPrune(props, previous_dep) ==
    /\ previous_dep >= props.arr_time
    /\ props.arr_time >= previous_dep - MAX_WAITING_TIME

time_filter_NoPrune(e, prev_props, previous_dep, threshold) ==
    /\ (isFoot(e.props) \/ inTimeRange_NoPrune(e.props, previous_dep))
    /\ ~consecutiveFoot(e.props, prev_props)
    /\ enoughProba(e.props, prev_props, threshold)

neighbours_NoPrune(g, dists, stop) ==
    SelectSeq(out_edges(g, stop),
              LAMBDA e : time_filter_NoPrune(e, dists[stop].prev_props,
                                             previous_dep_time(dists[stop]), args.threshold))

PopStep_NoPrune(st, k) ==
    LET curr == st.queue[k].node
        st0 == [st EXCEPT !.visited = st.visited \cup {curr},
                          !.queue = RemoveAt(st.queue, k)]
    IN Relax(neighbours_NoPrune(st.g, st.distances, curr), 1, curr, st0)

RECURSIVE SearchAlone_NoPrune(_)
SearchAlone_NoPrune(st) ==
    IF st.queue = <<>> THEN {build_route(st.distances, st.prev)}
    ELSE UNION {SearchAlone_NoPrune(PopStep_NoPrune(st, k)) :
                  k \in {k \in DOMAIN st.queue : IsMin(st.queue, k)}}

\* what a search returns, as far as start is concerned: no route, or the
\* departure time of the route
Outcome(r) == IF r = <<>> THEN <<>> ELSE <<dep_time(r[1])>>

\* C22: the pruning term is admissible.  From the state a search starts in,
\* the search without the pruning term has the outcomes of the implemented
\* search: a route exactly when it has one, with the same departure time.
\* While the label of start is uninitialised the two filters agree on every
\* edge.
C22_PruningAdmissible ==
    /\ (pc = "search" /\ visited = {}) =>
          {Outcome(r) : r \in SearchAlone(search_state)}
            = {Outcome(r) : r \in SearchAlone_NoPrune(search_state)}
    /\ (pc = "search" /\ distances[startId].first) =>
          \A n \in Stops : neighbours(searched, distances, n)
                             = neighbours_NoPrune(searched, distances, n)

\* the legs arriving at the destination that meet the time condition at the
\* pop of the destination, whose label is the Init sentinel
FirstHops(v) ==
    {j \in DOMAIN searched :
        /\ searched[j].u = endId /\ searched[j].v = v
        /\ \/ searched[j].props.ttype = "Foot"
           \/ /\ args.arr_time >= searched[j].props.arr_time
              /\ searched[j].props.arr_time >= args.arr_time - MAX_WAITING_TIME}

\* C23 as stated: first hop is not penalised.  For every leg relaxed out of
\* the destination the probability gate evaluates to 1, and no leg arriving
\* at the destination is pruned by the gate: every stop with such a leg has a
\* label after the pop of the destination.
C23_FirstHopFree ==
    [][(pc = "search" /\ pc' = "search" /\ Popped = endId) =>
          \A v \in Stops \ {endId} :
              /\ \A j \in FirstHops(v) :
                    PEq(connection_probability(searched[j].props,
                                               distances[endId].prev_props), POne)
              /\ distances'[v].first <=> FirstHops(v) = {}]_vars

\* the gate of a leg arriving at the destination: the leg's own gamma at the
\* time left before the target arrival time
FirstHopGate(props) ==
    IF props.gamma = "None" THEN POne
    ELSE GammaCdf(props.gamma, args.arr_time - props.arr_time - Penalty(props.ttype))

\* C23 as amended: for a leg relaxed out of the destination the gate is 1
\* when the leg has no gamma and else the CDF of the leg's own gamma at
\* arr_time_target - arr_time - penalty(ttype); the leg is pruned by the gate
\* exactly when this is below the threshold, so a stop has a label after the
\* pop of the destination exactly when one of its legs passes.
C23_FirstHopGate ==
    [][(pc = "search" /\ pc' = "search" /\ Popped = endId) =>
          \A v \in Stops \ {endId} :
              /\ \A j \in FirstHops(v) :
                    connection_probability(searched[j].props, distances[endId].prev_props)
                      = FirstHopGate(searched[j].props)
              /\ distances'[v].first <=>
                    \A j \in FirstHops(v) :
                        PLt(FirstHopGate(searched[j].props), args.threshold)]_vars

\* C24: time feasibility of the result.  In every route returned by a search
\* each leg arrives no later than the following leg departs, and the last
\* leg arrives no later than the target arrival time (the dep_time of the
\* Init sentinel that follows it).
C24_TimeFeasible ==
    \A n \in DOMAIN found : \A k \in AllPairs(found[n]) :
        /\ Leg(found[n], k).arr_time <= Leg(found[n], k + 1).dep_time
        /\ k + 1 = Len(found[n].connections) =>
              Leg(found[n], k).arr_time <= args.arr_time

\* every non-Foot edge of the graph has travel_time = arr_time - dep_time
WellTimed(g) ==
    \A j \in DOMAIN g :
        g[j].props.ttype # "Foot" =>
            g[j].props.travel_time = g[j].props.arr_time - g[j].props.dep_time

\* C25: label invariant.  On such a graph, at every point of a search with
\* target T every initialised label has cum_time = T - prev_props.dep_time,
\* and every returned route has travel_time() = T - dep_time() and
\* arr_time() = T.
C25_LabelInvariant ==
    WellTimed(G) =>
        /\ pc = "search" =>
              \A v \in Stops :
                  ~distances[v].first =>
                      distances[v].cum_time = args.arr_time - distances[v].prev_props.dep_time
        /\ \A n \in DOMAIN found :
              /\ travel_time(found[n]) = args.arr_time - dep_time(found[n])
              /\ arr_time(found[n]) = args.arr_time

\* following prev from n reaches the destination within k steps
RECURSIVE ChainEnds(_, _)
ChainEnds(n, k) ==
    IF n = endId THEN TRUE
    ELSE IF k = 0 \/ prev[n] = NoPrev THEN FALSE
    ELSE ChainEnds(prev[n], k - 1)

\* C26: the predecessor chain is well-founded.  At every point of a search
\* the destination has no predecessor entry; a stop with an entry has a
\* label whose cost is at least the cost of its predecessor's label; and
\* following prev from a stop with an entry reaches the destination without
\* meeting a stop twice or a stop without an entry.
C26_WellFounded ==
    pc = "search" =>
        /\ prev[endId] = NoPrev
        /\ \A n \in Stops :
              prev[n] # NoPrev =>
                  /\ ~distances[n].first
                  /\ ~distances[prev[n]].first
                  /\ distances[n].cum_time >= distances[prev[n]].cum_time
                  /\ ChainEnds(n, Cardinality(Stops) - 1)

\* C27: each edge removal removes exactly one edge.  An iteration of robust
\* takes one edge from weakest.u to weakest.v out of the private copy: the
\* number of parallel edges of that pair decreases by exactly one and every
\* other edge stays, with its attributes and in its place.
C27_OneEdgeRemoved ==
    [][(pc = "loop" /\ pc' = "search") =>
          /\ Len(between(graph', weakest.u, weakest.v))
               = Len(between(graph, weakest.u, weakest.v)) - 1
          /\ \E k \in DOMAIN graph :
                /\ graph[k].u = weakest.u /\ graph[k].v = weakest.v
                /\ graph' = RemoveAt(graph, k)]_vars

\* C28: the weakest edge is always found.  In every iteration of robust the
\* weakest edge (u, v, props) is a leg of the route found last; find_edge_key
\* returns the key (not None) of an edge of the copy from u to v that is that
\* leg, matching props on (dep_time, arr_time, trip_id) or being the Foot
\* edge when props is a Foot leg; and that edge is the one removed.
C28_WeakestFound ==
    [][(pc = "loop" /\ LoopCond) =>
          LET r == found[Len(found)]
              key == find_edge_key(graph, weakest.u, weakest.v, weakest.props)
          IN /\ key # 0
             /\ \E k \in AllPairs(r) : \E j \in DOMAIN graph :
                   /\ weakest = [u |-> r.connections[k + 1], v |-> r.connections[k],
                                 props |-> Leg(r, k)]
                   /\ graph[j].key = key
                   /\ graph[j].u = weakest.u /\ graph[j].v = weakest.v
                   /\ IF weakest.props.ttype = "Foot"
                      THEN graph[j].props.ttype = "Foot"
                      ELSE graph[j].props = weakest.props
                   /\ pc' = "search" => graph' = RemoveAt(graph, j)]_vars

\* the stops the search has taken from the queue so far
PoppedStops == visited \ QueueNodes(queue)

\* C29: no duplicate queue entries.  At every pop of a search the queue holds
\* a stop at most once; a stop that enters the queue was never in it before
\* (it is not in visited, and it is not the destination); the stop popped
\* was never popped before, so the stops popped grow by one; hence a search
\* pops at most |V| times.
C29_NoDuplicates ==
    [][(pc = "search" /\ pc' = "search") =>
          /\ Cardinality(QueueNodes(queue')) = Len(queue')
          /\ \A n \in QueueNodes(queue') \ QueueNodes(queue) : n \notin visited /\ n # endId
          /\ PoppedStops' = PoppedStops \cup {Popped}
          /\ Cardinality(PoppedStops') = Cardinality(PoppedStops) + 1
          /\ args.call = "stochastic_dijkstra" => steps' - 1 <= Cardinality(Stops)]_vars

\* C30: Foot-edge time synthesis.  The label L + e of a Foot edge e has
\* prev_props.dep_time = L.prev_props.dep_time - e.travel_time,
\* prev_props.arr_time = L.prev_props.dep_time, cum_time = L.cum_time +
\* e.travel_time, and the uninitialised flag of L.
C30_FootSynthesis ==
    (addition.pc = "done" /\ addition.props.ttype = "Foot") =>
        LET L == addition.self
            e == addition.props
            sum == addition.ret[1]
        IN /\ sum.prev_props.dep_time = L.prev_props.dep_time - e.travel_time
           /\ sum.prev_props.arr_time = L.prev_props.dep_time
           /\ sum.cum_time = L.cum_time + e.travel_time
           /\ sum.first = L.first

\* C31: relaxation monotonic, as stated.  For every label L and every non-Foot
\* edge e with dep_time <= arr_time and travel_time = arr_time - dep_time, the
\* label L + e has cum_time >= L.cum_time.
C31_RelaxationMonotonic ==
    (/\ addition.pc = "done"
     /\ addition.props.ttype # "Foot"
     /\ addition.props.dep_time <= addition.props.arr_time
     /\ addition.props.travel_time = addition.props.arr_time - addition.props.dep_time) =>
        addition.ret[1].cum_time >= addition.self.cum_time

\* C31, amended: relaxation is monotonic when the waiting time is not
\* negative.  For every label L and every non-Foot edge e with dep_time <=
\* arr_time, travel_time = arr_time - dep_time and e.arr_time <=
\* L.prev_props.dep_time, the label L + e has cum_time >= L.cum_time.
C31_MonotonicWhenFeasible ==
    (/\ addition.pc = "done"
     /\ addition.props.ttype # "Foot"
     /\ addition.props.dep_time <= addition.props.arr_time
     /\ addition.props.travel_time = addition.props.arr_time - addition.props.dep_time
     /\ addition.props.arr_time <= previous_dep_time(addition.self)) =>
        addition.ret[1].cum_time >= addition.self.cum_time

(***************************************************************************)
(* Reachable states in which the claims' cases happen.                     *)
(***************************************************************************)
HasFootLeg(r) == \E k \in AllPairs(r) : Leg(r, k).ttype = "Foot"

\* a returned route of four stops with a Foot leg and a wait before a later leg
C4_Witness ==
    \E n \in DOMAIN found :
        /\ Len(found[n].connections) = 4
        /\ HasFootLeg(found[n])
        /\ \E k \in LegPairs(found[n]) :
              Leg(found[n], k + 1).dep_time > Leg(found[n], k).arr_time

\* robust ends because a later search finds nothing, with no route accepted
C5_Witness ==
    /\ args.call = "robust" /\ pc = "done"
    /\ found # <<>> /\ ret = <<>>
    /\ graph # G
    /\ Len(result[1]) = 1
    /\ PLt(P(result[1][1]), args.threshold)

\* robust returns a single route below the threshold after two routes were found
C6_Witness ==
    /\ args.call = "robust" /\ pc = "done" /\ result # <<>>
    /\ Len(found) >= 2
    /\ Len(result[1]) = 1
    /\ PLt(P(result[1][1]), args.threshold)

\* no route meets the threshold and the second route found is the most robust
C7_Witness ==
    /\ args.call = "robust" /\ pc = "done"
    /\ Len(found) >= 2
    /\ \A n \in DOMAIN found : PLt(P(found[n]), args.threshold)
    /\ PLt(P(found[1]), P(found[2]))
    /\ result = <<(<<found[2]>>)>>

\* robust has removed an edge from its copy and a Foot edge was relaxed
C8_Witness ==
    /\ args.call = "robust" /\ pc = "done"
    /\ Len(graph) < Len(G)
    /\ \E n \in DOMAIN found : HasFootLeg(found[n])

\* a route of three pairs, two of which tie for a minimal probability below 1
C10_Witness ==
    \E n \in DOMAIN found :
        /\ Len(found[n].connections) = 4
        /\ \E j, k \in AllPairs(found[n]) :
              /\ j < k
              /\ PEq(Q(found[n], j), Q(found[n], k))
              /\ PLt(Q(found[n], j), POne)
              /\ \A m \in AllPairs(found[n]) : PLeq(Q(found[n], j), Q(found[n], m))

\* the second route robust finds visits the stops of the first one: it takes
\* a parallel edge of the removed one
C11_Witness ==
    /\ args.call = "robust" /\ pc = "returned"
    /\ Len(found) = 2
    /\ Removed # {}
    /\ found[1].connections = found[2].connections

\* robust has used all its iterations without filling the list
C12_Witness ==
    /\ args.call = "robust" /\ pc = "done"
    /\ args.max_iter >= 2
    /\ searches = args.max_iter
    /\ Cardinality(Removed) = args.max_iter - 1
    /\ i = args.max_iter
    /\ \A n \in DOMAIN found : PLt(P(found[n]), args.threshold)

\* robust ends with a full list of accepted routes and iterations to spare
C13_Witness ==
    /\ args.call = "robust" /\ pc = "done" /\ result # <<>>
    /\ i < args.max_iter
    /\ Len(result[1]) = args.number_of_routes
    /\ \A k \in DOMAIN result[1] : PGeq(P(result[1][k]), args.threshold)
    /\ searches = i

\* a call on the same trip with a gamma and a departure before the arrival
\* has returned
C14_Witness ==
    /\ delay.pc = "done"
    /\ delay.prev_props.trip_id = delay.curr_props.trip_id
    /\ delay.prev_props.gamma # "None"
    /\ delay.curr_props.ttype \notin {"Foot", "Init"}
    /\ delay.curr_props.dep_time < delay.prev_props.arr_time

\* a change from a Tram to a Bus, whose penalties differ, has returned a
\* probability the penalty of the Bus would not give
C16_Witness ==
    /\ delay.pc = "done"
    /\ delay.prev_props.ttype = "Tram" /\ delay.curr_props.ttype = "Bus"
    /\ delay.prev_props.trip_id # delay.curr_props.trip_id
    /\ delay.prev_props.gamma = "gFast"
    /\ delay.ret = <<Prob(85, 100)>>

C18_Witness ==
    /\ pc \in {"returned", "done"} /\ ret # <<>>
    /\ Len(ret[1].connections) = 4
    /\ HasFootLeg(ret[1])
    /\ \E k \in AllPairs(ret[1]) : Leg(ret[1], k).ttype # "Foot"

\* robust returns None with iterations to spare, on a graph that has a leg
\* leaving start and a leg reaching end
C20_Witness ==
    /\ args.call = "robust" /\ pc = "done"
    /\ result = <<>>
    /\ args.max_iter >= 2
    /\ \E j, k \in DOMAIN G : G[j].v = startId /\ G[k].u = endId

\* both requests have ended; the first one, robust, removed an edge from its
\* copy while the second one, a robust from the same stop, was running, and
\* both return the same list
C19_Witness ==
    /\ pc = "done" /\ other.pc = "done"
    /\ args.call = "robust" /\ other.args = args
    /\ Len(graph) < Len(G) /\ Len(other.graph) < Len(G)
    /\ result # <<>> /\ result = other.result

\* the destination has been expanded: the only leg from start arriving there
\* in time has a gamma and was pruned by the gate, and a leg of another stop
\* with a gamma has passed it
C23_Witness ==
    /\ pc = "search" /\ visited # {}
    /\ distances[startId].first
    /\ \E j \in FirstHops(startId) :
          /\ searched[j].props.gamma # "None"
          /\ PLt(FirstHopGate(searched[j].props), args.threshold)
    /\ \E v \in Stops \ {endId} : \E j \in FirstHops(v) :
          /\ searched[j].props.gamma # "None"
          /\ ~distances[v].first
          /\ distances[v].prev_props = searched[j].props

\* a returned route of three legs in which the label of an expanded stop was
\* replaced: the leg before it was relaxed against the old label and now
\* waits longer than the search allows
C24_Witness ==
    \E n \in DOMAIN found :
        /\ Len(found[n].connections) = 4
        /\ \E k \in LegPairs(found[n]) :
              /\ Leg(found[n], k + 1).ttype # "Foot"
              /\ Leg(found[n], k + 1).dep_time - Leg(found[n], k).arr_time > MAX_WAITING_TIME

\* a search in which a stop carries a Foot label and the stop before it a
\* scheduled leg that arrives before the walk starts
C25_Witness ==
    /\ pc = "search"
    /\ \E v, w \in Stops :
          /\ prev[w] = v
          /\ distances[v].prev_props.ttype = "Foot"
          /\ distances[w].prev_props.ttype \notin {"Foot", "Init"}
          /\ distances[w].prev_props.arr_time < distances[v].prev_props.dep_time

\* a search on a graph with legs in both directions between two stops: the
\* stop reached second has the first as its predecessor, its walk back to
\* the first was relaxed and rejected, and the chain is three stops long
C26_Witness ==
    /\ pc = "search"
    /\ \E n, m \in Stops \ {endId} :
          /\ prev[n] = m /\ prev[m] \notin {NoPrev, endId}
          /\ n \in visited /\ n \notin QueueNodes(queue)
          /\ \E j \in DOMAIN searched :
                /\ searched[j].u = n /\ searched[j].v = m
                /\ searched[j].props.ttype = "Foot"
                /\ distances[n].prev_props.ttype # "Foot"

\* robust has removed one of several parallel edges of a pair: the copy is
\* one edge short and still has an edge between the stops of the weakest edge
C27_Witness ==
    /\ args.call = "robust" /\ pc = "search" /\ routingG = "graph"
    /\ Len(graph) = Len(G) - 1
    /\ Len(between(G, weakest.u, weakest.v)) >= 3
    /\ Len(between(graph, weakest.u, weakest.v)) = Len(between(G, weakest.u, weakest.v)) - 1

\* robust has removed the Foot edge its first route ended with, whose times
\* in the route are not those stored in the graph, from a pair that has
\* scheduled edges as well
C28_Witness ==
    /\ args.call = "robust" /\ pc = "search" /\ routingG = "graph"
    /\ weakest.props.ttype = "Foot"
    /\ weakest.props.dep_time # 0
    /\ Len(graph) = Len(G) - 1
    /\ between(graph, weakest.u, weakest.v) # <<>>
    /\ \A j \in DOMAIN graph : graph[j].u = weakest.u /\ graph[j].v = weakest.v =>
                                  graph[j].props.ttype # "Foot"

\* a stop waits in the queue with the label it entered with, while its
\* label has improved since, and another stop has been popped after the
\* destination
C29_Witness ==
    /\ pc = "search"
    /\ Cardinality(PoppedStops) >= 2
    /\ \E j \in DOMAIN queue :
          Lt(distances[queue[j].node], queue[j].dist)

\* a Foot edge has been appended to the uninitialised label
C30_Witness ==
    /\ addition.pc = "done"
    /\ addition.props.ttype = "Foot" /\ addition.props.travel_time > 0
    /\ addition.self.first
    /\ addition.ret[1].prev_props.dep_time < addition.ret[1].prev_props.arr_time

\* a scheduled edge has been appended to an initialised label that departs
\* after the edge arrives, with time to wait in between
C31_Witness ==
    /\ addition.pc = "done"
    /\ addition.props.ttype # "Foot"
    /\ addition.props.dep_time < addition.props.arr_time
    /\ ~addition.self.first /\ addition.self.cum_time > 0
    /\ addition.props.arr_time < previous_dep_time(addition.self)
    /\ addition.ret[1].cum_time > addition.self.cum_time

====
